---- MODULE Spec2Model ----
(***************************************************************************)
(* Gutenberg Word Frequency Tool (gutenberg_guiKH.py).                     *)
(*                                                                         *)
(* Strings are sequences of one-character strings, so that strip, lower,   *)
(* the regular expression, the substring test and the formatting are        *)
(* computed character by character.  A database table is the sequence of   *)
(* its rows in insertion (rowid) order.                                    *)
(***************************************************************************)
EXTENDS Integers, Sequences, FiniteSets, TLC

VARIABLES
    title_entry,   \* content of the title Entry widget
    url_entry,     \* content of the URL Entry widget
    output_box,    \* content of the output Text widget
    Books,         \* table Books(title TEXT PRIMARY KEY)
    Words,         \* table Words(book_title, word, frequency)
    pc,            \* position of the single control thread
    title,         \* local: title_entry.get().strip()
    url,           \* local: url_entry.get().strip()
    results,       \* local of search_book: cur.fetchall()
    html,          \* local: the decoded search page, as its start tags
    parser,        \* the GutenbergSearchParser object
    fed,           \* number of start tags the parser has handled
    text,          \* local: the decoded book text
    words,         \* local: result of re.findall
    top_words,     \* local: result of most_common
    exc,           \* type of the exception raised in this request, or "none"
    net,           \* history: the urlopen calls made by this request
    Books0,        \* history: Books when this request started
    Words0,        \* history: Words when this request started
    remote_done,   \* history: per title, what the last remote Done displayed
    recorded       \* history: titles for which the INSERT OR IGNORE ran

vars == <<title_entry, url_entry, output_box, Books, Words, pc, title, url,
          results, html, parser, fed, text, words, top_words, exc, net, Books0,
          Words0, remote_done, recorded>>

----------------------------------------------------------------------------
(* Bounds of the model *)

MaxTextLen == 6
MaxTags == 4
VocabSize == 12
MaxRepeats == 3

(* Constants of the program *)

MinWordLen == 3
TopN == 10
SqlLimit == 10

----------------------------------------------------------------------------
(* Generic helpers *)

Max(S) == CHOOSE x \in S : \A y \in S : y <= x

Min2(a, b) == IF a <= b THEN a ELSE b

SeqsUpTo(S, n) == UNION {[1..k -> S] : k \in 0..n}

RECURSIVE Flatten(_)
Flatten(ss) == IF ss = <<>> THEN <<>> ELSE Head(ss) \o Flatten(Tail(ss))

RECURSIVE Repeat(_, _)
Repeat(s, n) == IF n = 0 THEN <<>> ELSE s \o Repeat(s, n - 1)

(* Python's None next to a string: None is <<>>, the string s is <<s>>. *)
None == <<>>
Some(s) == <<s>>

----------------------------------------------------------------------------
(* Characters *)

AsciiLower == <<"a", "b", "c", "d", "e", "f", "g", "h", "i", "j", "k", "l", "m",
                "n", "o", "p", "q", "r", "s", "t", "u", "v", "w", "x", "y", "z">>
AsciiUpper == <<"A", "B", "C", "D", "E", "F", "G", "H", "I", "J", "K", "L", "M",
                "N", "O", "P", "Q", "R", "S", "T", "U", "V", "W", "X", "Y", "Z">>
AsciiDigits == <<"0", "1", "2", "3", "4", "5", "6", "7", "8", "9">>

Range(f) == {f[i] : i \in DOMAIN f}

(* the character class [a-zA-Z] *)
IsAsciiLetter(c) == c \in Range(AsciiLower) \cup Range(AsciiUpper)

(* the character class \w, on the ASCII characters *)
IsWordChar(c) == IsAsciiLetter(c) \/ c \in Range(AsciiDigits) \/ c = "_"

(* str.isspace on the characters of the model *)
IsSpace(c) == c \in {" ", "\t", "\n"}

(* str.lower, one character *)
LowerChar(c) ==
    IF \E i \in DOMAIN AsciiUpper : AsciiUpper[i] = c
    THEN AsciiLower[CHOOSE i \in DOMAIN AsciiUpper : AsciiUpper[i] = c]
    ELSE c

lower(s) == [i \in DOMAIN s |-> LowerChar(s[i])]

(* str.strip(): drops the leading and the trailing whitespace *)
RECURSIVE lstrip(_)
lstrip(s) == IF s # <<>> /\ IsSpace(Head(s)) THEN lstrip(Tail(s)) ELSE s

RECURSIVE rstrip(_)
rstrip(s) ==
    IF s # <<>> /\ IsSpace(s[Len(s)]) THEN rstrip(SubSeq(s, 1, Len(s) - 1)) ELSE s

strip_nothing(s) == s

strip(s) == rstrip(lstrip(s))

(* str(n) for a natural number *)
RECURSIVE Decimal(_)
Decimal(n) ==
    IF n < 10 THEN <<AsciiDigits[n + 1]>>
    ELSE Decimal(n \div 10) \o <<AsciiDigits[(n % 10) + 1]>>

(* needle in hay, for strings *)
Contains(hay, needle) ==
    \E i \in 1..(Len(hay) - Len(needle) + 1) :
        SubSeq(hay, i, i + Len(needle) - 1) = needle

----------------------------------------------------------------------------
(* re.findall(r'\b[a-zA-Z]{3,}\b', s) *)

(* \b at position p, between s[p-1] and s[p] *)
IsBoundary(s, p) ==
    LET left == p > 1 /\ IsWordChar(s[p - 1])
        right == p <= Len(s) /\ IsWordChar(s[p])
    IN left # right

(* how many characters of [a-zA-Z] follow from position i *)
RECURSIVE LetterRun(_, _)
LetterRun(s, i) ==
    IF i <= Len(s) /\ IsAsciiLetter(s[i]) THEN 1 + LetterRun(s, i + 1) ELSE 0

(* Length of the match at position i, 0 for none: \b, then the greedy      *)
(* quantifier {3,} giving characters back until the closing \b matches.    *)
NoBoundaryMatchLen(s, i) ==
    LET n == LetterRun(s, i)
    IN IF n >= MinWordLen THEN n ELSE 0

MatchLen(s, i) ==
    IF ~IsBoundary(s, i) THEN 0
    ELSE LET n == LetterRun(s, i)
             ends == {k \in MinWordLen..n : IsBoundary(s, i + k)}
         IN IF ends = {} THEN 0 ELSE Max(ends)

(* the scan for the next match: the first position from i on where the     *)
(* pattern matches, Len(s) + 1 when there is none                          *)
RECURSIVE NextStart(_, _)
NextStart(s, i) ==
    IF i > Len(s) \/ MatchLen(s, i) > 0 THEN i ELSE NextStart(s, i + 1)

(* the non-overlapping matches from position i on, left to right *)
RECURSIVE FindFrom(_, _)
FindFrom(s, i) ==
    LET j == NextStart(s, i)
    IN IF j > Len(s) THEN <<>>
       ELSE <<SubSeq(s, j, j + MatchLen(s, j) - 1)>>
                \o FindFrom(s, j + MatchLen(s, j))

findall(s) == FindFrom(s, 1)

----------------------------------------------------------------------------
(* collections.Counter and most_common *)

(* Counter(ws) is the sequence of its <<key, count>> items in insertion     *)
(* order: a key is inserted when it first occurs, and its count is the     *)
(* number of its occurrences.                                              *)
Counter(ws) ==
    LET firsts == {i \in DOMAIN ws : \A j \in 1..(i - 1) : ws[j] # ws[i]}
        nth(k) == CHOOSE i \in firsts : Cardinality({j \in firsts : j < i}) = k - 1
    IN [k \in 1..Cardinality(firsts) |->
           <<ws[nth(k)], Cardinality({j \in DOMAIN ws : ws[j] = ws[nth(k)]})>>]

(* sorted(items, key=count, reverse=True): a stable sort, an item goes      *)
(* behind every item whose count is at least its own.                      *)
InsertUnstable(sorted, item) ==
    LET before == {i \in DOMAIN sorted : sorted[i][2] > item[2]}
        k == Cardinality(before)
    IN SubSeq(sorted, 1, k) \o <<item>> \o SubSeq(sorted, k + 1, Len(sorted))

InsertByCount(sorted, item) ==
    LET before == {i \in DOMAIN sorted : sorted[i][2] >= item[2]}
        k == Cardinality(before)
    IN SubSeq(sorted, 1, k) \o <<item>> \o SubSeq(sorted, k + 1, Len(sorted))

RECURSIVE SortedByCount(_)
SortedByCount(items) ==
    IF items = <<>> THEN <<>>
    ELSE InsertByCount(SortedByCount(SubSeq(items, 1, Len(items) - 1)),
                       items[Len(items)])

(* Counter.most_common(n) is heapq.nlargest(n, items, key=count), which is  *)
(* sorted(items, key=count, reverse=True)[:n].                             *)
most_common_all(c, n) == SortedByCount(c)

most_common(c, n) ==
    LET s == SortedByCount(c)
    IN SubSeq(s, 1, Min2(n, Len(s)))

----------------------------------------------------------------------------
(* GutenbergSearchParser *)

BOOKLINK == <<"b", "o", "o", "k", "l", "i", "n", "k">>

NewParser == [book_links |-> <<>>, in_result |-> FALSE]

(* dict(attrs): the last value given for a name wins *)
Dict(attrs) ==
    [n \in {attrs[i][1] : i \in DOMAIN attrs} |->
        attrs[Max({i \in DOMAIN attrs : attrs[i][1] = n})][2]]

(* 'booklink' in attrs['class'] raises TypeError when the class attribute  *)
(* has no value (None).                                                    *)
handle_raises(tag, attrs) ==
    LET d == Dict(attrs)
    IN tag = "li" /\ "class" \in DOMAIN d /\ d["class"] = None

handle_starttag_sticky(p, tag, attrs) ==
    LET d == Dict(attrs)
        marked == tag = "li" /\ "class" \in DOMAIN d
                    /\ Contains(d["class"][1], BOOKLINK)
        p1 == IF marked THEN [p EXCEPT !.in_result = TRUE] ELSE p
    IN IF p1.in_result /\ tag = "a" /\ "href" \in DOMAIN d
       THEN [p1 EXCEPT !.book_links = Append(p1.book_links, d["href"])]
       ELSE p1

(* handle_starttag, when it does not raise *)
handle_starttag(p, tag, attrs) ==
    LET d == Dict(attrs)
        marked == tag = "li" /\ "class" \in DOMAIN d
                    /\ Contains(d["class"][1], BOOKLINK)
        p1 == IF marked THEN [p EXCEPT !.in_result = TRUE] ELSE p
    IN IF p1.in_result /\ tag = "a" /\ "href" \in DOMAIN d
       THEN [book_links |-> Append(p1.book_links, d["href"]),
             in_result |-> FALSE]
       ELSE p1

(* parser.feed(html): the start tags in document order; a raise ends it.   *)
(* The result is <<parser, raised>>.                                       *)
RECURSIVE feed(_, _)
feed(p, tags) ==
    IF tags = <<>> THEN <<p, FALSE>>
    ELSE IF handle_raises(Head(tags).tag, Head(tags).attrs) THEN <<p, TRUE>>
    ELSE feed(handle_starttag(p, Head(tags).tag, Head(tags).attrs), Tail(tags))

(* The start tags the model feeds *)
Href84 == <<"/", "e", "b", "o", "o", "k", "s", "/", "8", "4">>
Href11 == <<"/", "e", "b", "o", "o", "k", "s", "/", "1", "1">>
ClassBooklinkOdd == <<"b", "o", "o", "k", "l", "i", "n", "k", " ", "o", "d", "d">>
ClassNavlink == <<"n", "a", "v", "l", "i", "n", "k">>

LiBook == [tag |-> "li", attrs |-> << <<"class", Some(ClassBooklinkOdd)>> >>]
LiOther == [tag |-> "li", attrs |-> << <<"class", Some(ClassNavlink)>> >>]
LiBare == [tag |-> "li", attrs |-> << <<"class", None>> >>]
A84 == [tag |-> "a", attrs |-> << <<"href", Some(Href84)>> >>]
A11 == [tag |-> "a", attrs |-> << <<"class", Some(BOOKLINK)>>, <<"href", Some(Href11)>> >>]
ANoHref == [tag |-> "a", attrs |-> << <<"name", Some(ClassNavlink)>> >>]
AHrefNone == [tag |-> "a", attrs |-> << <<"href", None>> >>]

StartTags == {LiBook, LiOther, LiBare, A84, A11, ANoHref, AHrefNone}

(* s.split('/')[-1] *)
LastSegment(s) ==
    LET slashes == {i \in DOMAIN s : s[i] = "/"}
    IN IF slashes = {} THEN s ELSE SubSeq(s, Max(slashes) + 1, Len(s))

(* urllib.parse.quote(s): letters, digits and "_.-~/" are kept, a space     *)
(* becomes %20 (the only other character of the model's titles).           *)
QuoteChar(c) ==
    IF IsWordChar(c) \/ c \in {".", "-", "~", "/"} THEN <<c>>
    ELSE <<"%", "2", "0">>

quote(s) == Flatten([i \in DOMAIN s |-> QuoteChar(s[i])])

----------------------------------------------------------------------------
(* The store *)

(* INSERT INTO Books: the PRIMARY KEY refuses a second row with the title,  *)
(* and OR IGNORE turns the refusal into a skip.                            *)
InsertAlways(books, t) == Append(books, t)

InsertOrIgnore(books, t) ==
    IF \E i \in DOMAIN books : books[i] = t THEN books ELSE Append(books, t)

(* executemany("INSERT INTO Words VALUES (?, ?, ?)", ...) *)
InsertWordsDropped(tbl, t, pairs) == tbl

InsertWords(tbl, t, pairs) ==
    tbl \o [i \in DOMAIN pairs |-> <<t, pairs[i][1], pairs[i][2]>>]

RowsOf(tbl, t) == SelectSeq(tbl, LAMBDA r : r[1] = t)

(* ORDER BY frequency DESC: every order of the rows with a non-increasing   *)
(* frequency; SQL leaves the order of rows with equal frequency open.      *)
RECURSIVE Orderings(_, _)
Orderings(rows, S) ==
    IF S = {} THEN {<<>>}
    ELSE LET top == {i \in S : \A j \in S : rows[j][3] <= rows[i][3]}
         IN UNION {{<<rows[i]>> \o r : r \in Orderings(rows, S \ {i})} : i \in top}

(* SELECT word, frequency FROM Words WHERE book_title = ?                   *)
(* ORDER BY frequency DESC LIMIT 10: the set of results it may give.       *)
SelectTopWords(tbl, t) ==
    LET rows == RowsOf(tbl, t)
    IN {[i \in 1..Min2(SqlLimit, Len(o)) |-> <<o[i][2], o[i][3]>>] :
            o \in Orderings(rows, DOMAIN rows)}

----------------------------------------------------------------------------
(* What the output box shows *)

NotFoundMsg == <<"B", "o", "o", "k", " ", "w", "a", "s", " ", "n", "o", "t", " ",
                 "f", "o", "u", "n", "d", ".", "\n">>
EmptyInputMsg == <<"P", "l", "e", "a", "s", "e", " ", "e", "n", "t", "e", "r", " ",
                   "a", " ", "t", "i", "t", "l", "e", " ", "o", "r", " ", "U", "R",
                   "L", ".", "\n">>
ErrorPrefix == <<"E", "r", "r", "o", "r", ":", " ">>

(* str(e) of the exceptions of the model; the text of a URLError or a       *)
(* UnicodeDecodeError is the environment's.                                *)
ExcText(e) ==
    CASE e = "NameError" ->
            <<"n", "a", "m", "e", " ", "'", "e", "x", "t", "r", "a", "c", "t", "e",
              "d", "_", "t", "i", "t", "l", "e", "'", " ", "i", "s", " ", "n", "o",
              "t", " ", "d", "e", "f", "i", "n", "e", "d">>
      [] e = "URLError" ->
            <<"<", "u", "r", "l", "o", "p", "e", "n", " ", "e", "r", "r", "o", "r", ">">>
      [] OTHER -> <<"i", "n", "v", "a", "l", "i", "d", " ", "s", "t", "a", "r", "t",
                    " ", "b", "y", "t", "e">>

(* f"{word}: {freq}\n" *)
FormatRow(word, freq) == word \o <<":", " ">> \o Decimal(freq) \o <<"\n">>

(* the inserts of the display loop, one after the other *)
FormatRows(pairs) == Flatten([i \in DOMAIN pairs |-> FormatRow(pairs[i][1], pairs[i][2])])

(* except Exception: every exception of the model but these two derives     *)
(* from Exception.                                                         *)
CatchesOnlyURLError(e) == e = "URLError"

CatchesException(e) == e \notin {"KeyboardInterrupt", "SystemExit"}

----------------------------------------------------------------------------
(* What the user types and what the network answers *)

(* contents of the title entry: nothing, whitespace, and the titles "a" and *)
(* "b" with whitespace around them                                         *)
TitleEntries == {<<>>, <<" ">>, <<"a">>, <<" ", "a">>, <<"a", " ">>,
                 <<" ", "a", " ">>, <<"b">>, <<"\t", "b", " ">>}

(* contents of the URL entry *)
UrlEntries == {<<>>, <<" ", " ">>, <<"u">>, <<" ", "u", "\t">>}

Titles == {strip(e) : e \in TitleEntries} \ {<<>>}

(* the i-th three-letter word over x, y, z *)
WordLetters == <<"x", "y", "z">>
Word(i) == <<WordLetters[((i \div 9) % 3) + 1], WordLetters[((i \div 3) % 3) + 1],
             WordLetters[(i % 3) + 1]>>

(* "a an 12": no run of three letters *)
TextNoTokens == <<"a", " ", "a", "n", " ", "1", "2">>
(* "Dog cat, dog_x cat1": dog and cat once each *)
TextTie == <<"D", "o", "g", " ", "c", "a", "t", ",", " ", "d", "o", "g", "_", "x",
             " ", "c", "a", "t", "1">>
(* eleven distinct words: Word(0) to Word(8) occur 9, 8, ..., 1 times, then  *)
(* Word(9) and Word(10) once each                                          *)
TextLong ==
    Flatten([i \in 1..11 |->
        Repeat(Word(i - 1) \o <<" ">>, IF i <= 9 THEN 10 - i ELSE 1)])

BookTexts == {TextNoTokens, TextTie, TextLong}

HtmlPages == {<<LiOther, A84>>,
              <<LiOther, LiBook, ANoHref, A84, A11>>,
              <<LiBook, LiBare, A84>>,
              <<LiBook, AHrefNone>>}

Waiting == {"Idle", "Done", "Failed", "EmptyInput", "Crashed"}

ResetLocals == html' = <<>> /\ parser' = NewParser /\ text' = <<>>

----------------------------------------------------------------------------
(* process_input, lines 157-161, 163 and 187-190: the SEARCH button *)

process_input(te, ue) ==
    /\ pc \in Waiting
    /\ title_entry' = te
    /\ url_entry' = ue
    /\ title' = strip(te)
    /\ url' = strip(ue)
    /\ results' = <<>>
    /\ net' = <<>>
    /\ exc' = "none"
    /\ Books0' = Books
    /\ Words0' = Words
    /\ IF strip(te) # <<>>
       THEN pc' = "LocalCheck" /\ UNCHANGED output_box
       ELSE IF strip(ue) # <<>>
       THEN pc' = "DirectDownload" /\ UNCHANGED output_box
       ELSE pc' = "EmptyInput" /\ output_box' = EmptyInputMsg
    /\ words' = <<>>
    /\ top_words' = <<>>
    /\ UNCHANGED <<Books, Words, html, parser, fed, text, remote_done, recorded>>

search_book_always_fetches ==
    /\ pc = "LocalCheck"
    /\ results' = <<>>
    /\ output_box' = <<>>
    /\ pc' = "RemoteSearch"
    /\ UNCHANGED <<title_entry, url_entry, Books, Words, title, url, html, parser,
                   fed, text, words, top_words, exc, net, Books0, Words0,
                   remote_done, recorded>>

(* search_book, lines 79-93 *)
search_book ==
    /\ pc = "LocalCheck"
    /\ \E rows \in SelectTopWords(Words, title) :
          /\ results' = rows
          /\ IF rows # <<>>
             THEN output_box' = FormatRows(rows) /\ pc' = "Done"
             ELSE output_box' = <<>> /\ pc' = "RemoteSearch"
    /\ UNCHANGED <<title_entry, url_entry, Books, Words, title, url, html, parser,
                   fed, text, words, top_words, exc, net, Books0, Words0,
                   remote_done, recorded>>

(* fetch_and_process_book, lines 145-146: the except clause, for an         *)
(* exception e raised inside the try                                       *)
except_fetch(e) ==
    /\ exc' = e
    /\ IF CatchesException(e)
       THEN output_box' = output_box \o NotFoundMsg /\ pc' = "Failed"
       ELSE pc' = "Crashed" /\ UNCHANGED output_box
    /\ ResetLocals

(* fetch_and_process_book, lines 107-110: the catalog search *)
RemoteSearch ==
    /\ pc = "RemoteSearch"
    /\ net' = Append(net, [endpoint |-> "search", arg |-> quote(title)])
    /\ \/ except_fetch("URLError")
       \/ except_fetch("UnicodeDecodeError")
       \/ \E page \in HtmlPages :
            /\ html' = page
            /\ pc' = "ExtractLink"
            /\ UNCHANGED <<output_box, parser, text, exc>>
    /\ UNCHANGED <<title_entry, url_entry, Books, Words, title, url, results, fed, words,
                   top_words, Books0, Words0, remote_done, recorded>>

(* fetch_and_process_book, lines 113-118: the link extractor *)
ExtractLink ==
    /\ pc = "ExtractLink"
    /\ LET r == feed(NewParser, html)
       IN IF r[2] THEN except_fetch("TypeError")
          ELSE IF r[1].book_links = <<>>
          THEN /\ output_box' = output_box \o NotFoundMsg
               /\ pc' = "Failed"
               /\ ResetLocals
               /\ UNCHANGED exc
          ELSE /\ parser' = r[1]
               /\ pc' = "DownloadText"
               /\ UNCHANGED <<output_box, html, text, exc>>
    /\ UNCHANGED <<title_entry, url_entry, Books, Words, title, url, results, fed, words,
                   top_words, net, Books0, Words0, remote_done, recorded>>

(* fetch_and_process_book, lines 121-126: the text download *)
DownloadText ==
    /\ pc = "DownloadText"
    /\ IF parser.book_links[1] = None
       THEN except_fetch("AttributeError") /\ UNCHANGED net
       ELSE /\ net' = Append(net, [endpoint |-> "files",
                                   arg |-> LastSegment(parser.book_links[1][1])])
            /\ \/ except_fetch("URLError")
               \/ except_fetch("UnicodeDecodeError")
               \/ \E t \in BookTexts :
                    /\ text' = t
                    /\ pc' = "CountAndPersist"
                    /\ UNCHANGED <<output_box, html, parser, exc>>
    /\ UNCHANGED <<title_entry, url_entry, Books, Words, title, url, results, fed, words,
                   top_words, Books0, Words0, remote_done, recorded>>

(* fetch_and_process_book, lines 129-143: count, store, display *)
CountAndPersist ==
    /\ pc = "CountAndPersist"
    /\ words' = findall(lower(text))
    /\ top_words' = most_common(Counter(words'), TopN)
    /\ Books' = InsertOrIgnore(Books, title)
    /\ Words' = InsertWords(Words, title, top_words')
    /\ output_box' = FormatRows(top_words')
    /\ remote_done' = [remote_done EXCEPT ![title] = Some(top_words')]
    /\ recorded' = recorded \cup {title}
    /\ pc' = "Done"
    /\ ResetLocals
    /\ UNCHANGED <<title_entry, url_entry, title, url, results, fed, exc,
                   net, Books0, Words0>>

(* process_input, lines 183-185: the except clause of the URL branch *)
except_direct(e) ==
    /\ exc' = e
    /\ IF CatchesException(e)
       THEN output_box' = ErrorPrefix \o ExcText(e) \o <<"\n">> /\ pc' = "Failed"
       ELSE pc' = "Crashed" /\ UNCHANGED output_box
    /\ ResetLocals

(* process_input, lines 165-166: the download of the given URL *)
DirectDownload ==
    /\ pc = "DirectDownload"
    /\ net' = Append(net, [endpoint |-> "direct", arg |-> url])
    /\ \/ except_direct("URLError")
       \/ except_direct("UnicodeDecodeError")
       \/ \E t \in BookTexts :
            /\ text' = t
            /\ pc' = "DirectCount"
            /\ UNCHANGED <<output_box, html, parser, exc>>
    /\ UNCHANGED <<title_entry, url_entry, Books, Words, title, url, results, fed, words,
                   top_words, Books0, Words0, remote_done, recorded>>

(* process_input, lines 169-174: the words are counted and the store is     *)
(* opened; then line 174 reads extracted_title, a name bound nowhere in the *)
(* file, and raises NameError before the INSERT runs.                      *)
DirectCount ==
    /\ pc = "DirectCount"
    /\ words' = findall(lower(text))
    /\ top_words' = most_common(Counter(words'), TopN)
    /\ except_direct("NameError")
    /\ UNCHANGED <<title_entry, url_entry, Books, Words, title, url, results, fed,
                   net, Books0, Words0, remote_done, recorded>>

(* setup_database, lines 55-65, on a new books.db, and the widgets as       *)
(* lines 205-226 create them                                               *)
setup_database ==
    /\ Books = <<>>
    /\ Words = <<>>

Init ==
    /\ setup_database
    /\ title_entry = <<>>
    /\ url_entry = <<>>
    /\ output_box = <<>>
    /\ pc = "Idle"
    /\ title = <<>>
    /\ url = <<>>
    /\ results = <<>>
    /\ html = <<>>
    /\ parser = NewParser
    /\ fed = 0
    /\ text = <<>>
    /\ words = <<>>
    /\ top_words = <<>>
    /\ exc = "none"
    /\ net = <<>>
    /\ Books0 = <<>>
    /\ Words0 = <<>>
    /\ remote_done = [t \in Titles |-> None]
    /\ recorded = {}

Next ==
    \/ \E te \in TitleEntries, ue \in UrlEntries : process_input(te, ue)
    \/ search_book
    \/ RemoteSearch
    \/ ExtractLink
    \/ DownloadText
    \/ CountAndPersist
    \/ DirectDownload
    \/ DirectCount

Spec == Init /\ [][Next]_vars

----------------------------------------------------------------------------
(* The link extractor on its own: any document of at most MaxTags start     *)
(* tags, fed one tag at a time as HTMLParser.feed does.                    *)

AppAtRest ==
    /\ setup_database
    /\ title_entry = <<>>
    /\ url_entry = <<>>
    /\ output_box = <<>>
    /\ title = <<>>
    /\ url = <<>>
    /\ results = <<>>
    /\ exc = "none"
    /\ net = <<>>
    /\ Books0 = <<>>
    /\ Words0 = <<>>
    /\ remote_done = [t \in Titles |-> None]
    /\ recorded = {}

AppUnchanged ==
    UNCHANGED <<title_entry, url_entry, output_box, Books, Words, title, url,
                results, net,
                Books0, Words0, remote_done, recorded>>

InitParser ==
    /\ AppAtRest
    /\ html \in SeqsUpTo(StartTags, MaxTags)
    /\ parser = NewParser
    /\ fed = 0
    /\ pc = "Feed"
    /\ text = <<>>
    /\ words = <<>>
    /\ top_words = <<>>

(* GutenbergSearchParser.handle_starttag, lines 40-45, on the next tag *)
FeedTag ==
    /\ pc = "Feed"
    /\ fed < Len(html)
    /\ LET t == html[fed + 1]
       IN IF handle_raises(t.tag, t.attrs)
          THEN pc' = "Raised" /\ exc' = "TypeError" /\ UNCHANGED parser
          ELSE /\ parser' = handle_starttag(parser, t.tag, t.attrs)
               /\ UNCHANGED <<pc, exc>>
    /\ fed' = fed + 1
    /\ UNCHANGED <<html, text, words, top_words>>
    /\ AppUnchanged

NextParser == FeedTag

SpecParser == InitParser /\ [][NextParser]_vars

----------------------------------------------------------------------------
(* The tokenizer on its own: any text of at most MaxTextLen characters.     *)

TextChars == {"a", "B", "1", "_", " "}

InitTokenize ==
    /\ AppAtRest
    /\ text \in SeqsUpTo(TextChars, MaxTextLen)
    /\ pc = "Tokenize"
    /\ html = <<>>
    /\ parser = NewParser
    /\ fed = 0
    /\ words = <<>>
    /\ top_words = <<>>

(* lines 129 and 169: words = re.findall(..., text.lower()) *)
Tokenize ==
    /\ pc = "Tokenize"
    /\ words' = findall(lower(text))
    /\ pc' = "Tokenized"
    /\ UNCHANGED <<html, parser, fed, text, top_words, exc>>
    /\ AppUnchanged

NextTokenize == Tokenize

SpecTokenize == InitTokenize /\ [][NextTokenize]_vars

----------------------------------------------------------------------------
(* The counter on its own: the first k words of a vocabulary of VocabSize   *)
(* distinct words, in order or reversed, followed by at most MaxRepeats    *)
(* repetitions of four of them.                                            *)

Vocabulary == [i \in 1..VocabSize |-> Word(i - 1)]

Reverse(s) == [i \in DOMAIN s |-> s[Len(s) + 1 - i]]

RepeatedWords == {Word(0), Word(1), Word(VocabSize - 2), Word(VocabSize - 1)}

TokenSequences ==
    {p \o r : p \in {SubSeq(Vocabulary, 1, k) : k \in 0..VocabSize}
                      \cup {Reverse(SubSeq(Vocabulary, 1, k)) : k \in 0..VocabSize},
              r \in SeqsUpTo(RepeatedWords, MaxRepeats)}

InitTopWords ==
    /\ AppAtRest
    /\ words \in TokenSequences
    /\ pc = "Count"
    /\ html = <<>>
    /\ parser = NewParser
    /\ fed = 0
    /\ text = <<>>
    /\ top_words = <<>>

(* lines 130 and 170: top_words = Counter(words).most_common(10) *)
CountWords ==
    /\ pc = "Count"
    /\ top_words' = most_common(Counter(words), TopN)
    /\ pc' = "Counted"
    /\ UNCHANGED <<html, parser, fed, text, words, exc>>
    /\ AppUnchanged

NextTopWords == CountWords

SpecTopWords == InitTopWords /\ [][NextTopWords]_vars

----------------------------------------------------------------------------
(* What the claims speak of *)

(* the runs i..j of s whose characters are in cls and that are maximal *)
MaximalRuns(s, cls) ==
    {r \in (DOMAIN s) \X (DOMAIN s) :
        /\ r[1] <= r[2]
        /\ \A k \in r[1]..r[2] : s[k] \in cls
        /\ r[1] = 1 \/ s[r[1] - 1] \notin cls
        /\ r[2] = Len(s) \/ s[r[2] + 1] \notin cls}

Letters == Range(AsciiLower) \cup Range(AsciiUpper)

LettersDigitsUnderscore == Letters \cup Range(AsciiDigits) \cup {"_"}

(* the runs of a set, from left to right, as lowercased strings *)
RunsInOrder(s, runs) ==
    LET nth(k) == CHOOSE r \in runs : Cardinality({q \in runs : q[1] < r[1]}) = k - 1
    IN [k \in 1..Cardinality(runs) |-> lower(SubSeq(s, nth(k)[1], nth(k)[2]))]

(* the maximal runs of ASCII letters of length at least 3 *)
LetterRuns(s) ==
    {r \in MaximalRuns(s, Letters) : r[2] - r[1] + 1 >= 3}

(* the maximal runs of letters, digits and underscores that consist of      *)
(* letters only and are at least 3 long                                    *)
LetterOnlyWords(s) ==
    {r \in MaximalRuns(s, LettersDigitsUnderscore) :
        /\ r[2] - r[1] + 1 >= 3
        /\ \A k \in r[1]..r[2] : s[k] \in Letters}

Occurrences(ws, w) == Cardinality({i \in DOMAIN ws : ws[i] = w})

FirstOccurrence(ws, w) == CHOOSE i \in DOMAIN ws : ws[i] = w /\ \A j \in 1..(i - 1) : ws[j] # w

(* C8: most_common returns min(10, number of distinct tokens) pairs, each   *)
(* a distinct token with its exact number of occurrences, in non-increasing*)
(* frequency, equal frequencies in order of first occurrence, and no token *)
(* left out occurs more often than a returned one.                         *)
C8_TopWords ==
    pc = "Counted" =>
        LET distinct == Range(words)
            returned == {top_words[i][1] : i \in DOMAIN top_words}
        IN /\ Len(top_words) = Min2(10, Cardinality(distinct))
           /\ Cardinality(returned) = Len(top_words)
           /\ \A i \in DOMAIN top_words :
                /\ top_words[i][1] \in distinct
                /\ top_words[i][2] = Occurrences(words, top_words[i][1])
           /\ \A i, j \in DOMAIN top_words :
                i < j =>
                    /\ top_words[i][2] >= top_words[j][2]
                    /\ top_words[i][2] = top_words[j][2] =>
                         FirstOccurrence(words, top_words[i][1])
                            < FirstOccurrence(words, top_words[j][1])
           /\ \A w \in distinct \ returned : \A i \in DOMAIN top_words :
                Occurrences(words, w) <= top_words[i][2]

(* C8, witness: more than 10 distinct tokens, two returned pairs with the   *)
(* same frequency, and a frequency above 1.                                *)
C8_Witness ==
    /\ pc = "Counted"
    /\ Cardinality(Range(words)) > 10
    /\ Len(top_words) = 10
    /\ top_words[1][2] > top_words[2][2]
    /\ top_words[9][2] = top_words[10][2]

IsMarker(t) ==
    /\ t.tag = "li"
    /\ \E i \in DOMAIN t.attrs :
         /\ t.attrs[i][1] = "class"
         /\ \A j \in DOMAIN t.attrs : j > i => t.attrs[j][1] # "class"
         /\ t.attrs[i][2] # None
         /\ Contains(t.attrs[i][2][1], BOOKLINK)

IsHrefAnchor(t) == t.tag = "a" /\ \E i \in DOMAIN t.attrs : t.attrs[i][1] = "href"

HrefOf(t) ==
    t.attrs[Max({i \in DOMAIN t.attrs : t.attrs[i][1] = "href"})][2]

(* the tags handled so far; the tag that raised is not among them *)
Handled == IF pc = "Raised" THEN fed - 1 ELSE fed

(* the anchors that are the first href-bearing anchor after some marker *)
CapturedAt ==
    {j \in 1..Handled :
        /\ IsHrefAnchor(html[j])
        /\ \E i \in 1..(j - 1) :
             /\ IsMarker(html[i])
             /\ \A k \in (i + 1)..(j - 1) : ~IsHrefAnchor(html[k])}

(* C9: the captured links are, in document order, the hrefs of the anchors  *)
(* that are the first href-bearing anchor after a booklink list item; so   *)
(* there are never more links than markers, and none without a marker      *)
(* followed by an anchor.                                                  *)
C9_LinksAreFirstAnchors ==
    pc \in {"Feed", "Raised"} =>
        LET nth(k) == CHOOSE j \in CapturedAt :
                          Cardinality({q \in CapturedAt : q < j}) = k - 1
            markers == {i \in 1..Handled : IsMarker(html[i])}
        IN /\ parser.book_links =
                [k \in 1..Cardinality(CapturedAt) |-> HrefOf(html[nth(k)])]
           /\ Len(parser.book_links) <= Cardinality(markers)
           /\ (~\E i, j \in 1..Handled :
                  i < j /\ IsMarker(html[i]) /\ IsHrefAnchor(html[j]))
                => parser.book_links = <<>>

(* C9, witness: two markers in a row, then two anchors with an href, all    *)
(* handled, and one link captured.                                         *)
C9_Witness ==
    /\ pc = "Feed"
    /\ fed = 4
    /\ Len(html) = 4
    /\ IsMarker(html[1]) /\ IsMarker(html[2])
    /\ IsHrefAnchor(html[3]) /\ IsHrefAnchor(html[4])
    /\ Len(parser.book_links) = 1


(* the <<word, frequency>> pairs a table holds for a title, in row order *)
StoredPairs(tbl, t) ==
    LET rows == RowsOf(tbl, t)
    IN [i \in DOMAIN rows |-> <<rows[i][2], rows[i][3]>>]

(* r holds the same pairs as s, each as often *)
SamePairs(r, s) ==
    /\ Len(r) = Len(s)
    /\ \A p \in Range(r) \cup Range(s) : Occurrences(r, p) = Occurrences(s, p)

NonIncreasing(r) == \A i, j \in DOMAIN r : i < j => r[i][2] >= r[j][2]

AllWhitespace(s) == \A i \in DOMAIN s : IsSpace(s[i])

(* C1: a title lookup that finds rows for exactly that title in Words ends  *)
(* Done from the local check, showing the stored pairs, with no urlopen    *)
(* call.                                                                   *)
C1_LocalHit ==
    (pc # "Idle" /\ title # <<>> /\ RowsOf(Words0, title) # <<>>) =>
        /\ pc \in {"LocalCheck", "Done"}
        /\ net = <<>>
        /\ pc = "Done" =>
             /\ SamePairs(results, StoredPairs(Words0, title))
             /\ output_box = FormatRows(results)

(* C1, witness: a lookup answered from the store while Words also holds     *)
(* rows of another title.                                                  *)
C1_Witness ==
    /\ pc = "Done"
    /\ title # <<>>
    /\ net = <<>>
    /\ results # <<>>
    /\ Len(Words) > Len(results)
    /\ output_box = FormatRows(results)

(* C2: every book_title in Words has at most 10 rows there and a row in     *)
(* Books.                                                                  *)
C2_WordsBoundedAndOwned ==
    \A i \in DOMAIN Words :
        /\ Len(RowsOf(Words, Words[i][1])) <= 10
        /\ \E j \in DOMAIN Books : Books[j] = Words[i][1]

(* C2, witness: a direct-URL request has just failed, and Words holds 10    *)
(* rows for one title and rows for a second one.                           *)
C2_Witness ==
    /\ pc = "Failed"
    /\ title = <<>>
    /\ exc = "NameError"
    /\ \E i \in DOMAIN Words : Len(RowsOf(Words, Words[i][1])) = 10
    /\ Len(Books) = 2

(* C3: Books never holds two rows with one title, and holds a row for each  *)
(* title the INSERT OR IGNORE ran for.                                     *)
C3_BooksUnique ==
    /\ \A i, j \in DOMAIN Books : i # j => Books[i] # Books[j]
    /\ Range(Books) = recorded

(* C3, witness: the remote path has stored a title that Books already held  *)
(* when the request started.                                               *)
C3_Witness ==
    /\ pc = "Done"
    /\ Len(net) = 2
    /\ \E j \in DOMAIN Books0 : Books0[j] = title
    /\ Books = Books0

(* C4: in a title lookup every exception is caught, and the request that    *)
(* fails ends Failed showing "Book was not found." and nothing else, with  *)
(* Books and Words as they were when it started.                           *)
C4_LookupFailure ==
    /\ pc # "Crashed"
    /\ title # <<>> =>
         /\ exc # "none" => pc = "Failed"
         /\ pc = "Failed" =>
              /\ output_box = NotFoundMsg
              /\ Books = Books0
              /\ Words = Words0

(* C4, witness: the text download of a lookup could not be decoded, with    *)
(* rows already in the store.                                              *)
C4_Witness ==
    /\ pc = "Failed"
    /\ title # <<>>
    /\ exc = "UnicodeDecodeError"
    /\ Len(net) = 2
    /\ Words # <<>>
    /\ output_box = NotFoundMsg

DownloadFailures == {"URLError", "UnicodeDecodeError"}

(* C5 as stated: a direct-URL request whose download succeeds ends Done     *)
(* with the book and its top words stored and displayed; it ends Failed    *)
(* only when the download failed.                                          *)
C5_DirectUrl ==
    (title = <<>> /\ url # <<>> /\ pc \in {"Done", "Failed", "Crashed"}) =>
        IF exc \in DownloadFailures THEN pc = "Failed"
        ELSE pc = "Done" /\ Len(Books) >= 1

(* C6: when both entries hold only whitespace, the request shows "Please    *)
(* enter a title or URL.", which is not the not-found message, calls       *)
(* urlopen never and leaves Books and Words as they were.                  *)
C6_EmptyInput ==
    (pc # "Idle" /\ AllWhitespace(title_entry) /\ AllWhitespace(url_entry)) =>
        /\ pc = "EmptyInput"
        /\ output_box = EmptyInputMsg
        /\ output_box # NotFoundMsg
        /\ net = <<>>
        /\ Books = Books0
        /\ Words = Words0

(* C6, witness: both entries hold whitespace, and the store holds rows.     *)
C6_Witness ==
    /\ pc = "EmptyInput"
    /\ title_entry # <<>>
    /\ url_entry # <<>>
    /\ Words # <<>>
    /\ output_box = EmptyInputMsg

(* a step that ends a lookup of a title which the remote path has served *)
EndsLaterLookup ==
    /\ title # <<>>
    /\ remote_done[title] # None
    /\ pc \in {"LocalCheck", "CountAndPersist"}
    /\ pc' = "Done"

====
